---- MODULE Spec2Model ----
(***************************************************************************)
(* State-machine model of the encode session of common/encode_lavc.c      *)
(* (struct encode_lavc_context and the encode_lavc_* operations on it).    *)
(*                                                                         *)
(* Conventions                                                             *)
(*  - a C string is a sequence of tokens: the characters the code looks    *)
(*    for ("+", "-", "=") are tokens of their own, every maximal run of    *)
(*    other characters is one token; the empty sequence is "" or NULL;     *)
(*  - an AVDictionary is a function from keys to values, NULL is the       *)
(*    empty function;                                                      *)
(*  - a pointer to an immutable library object (an AVCodec) is its name,   *)
(*    "NULL" when null; a pointer to a mutable object is a BOOLEAN         *)
(*    (non-null) next to the object's fields;                              *)
(*  - every operation is one action; the value it returns is left in ret   *)
(*    (<<>> for void) and its name in op.                                  *)
(***************************************************************************)
EXTENDS Integers, Sequences, FiniteSets, TLC

VARIABLES
    options,   \* struct encode_opts, fixed at construction
    av,        \* what the container/codec library answers for this output
    ctx,       \* struct encode_lavc_context
    streams,   \* the AVStream objects of ctx->avc, in index order
    codecs,    \* the AVCodecContext objects handed out by alloc_stream
    lib,       \* the world outside the session: library calls made, log files
    op,        \* name of the last operation called
    ret,       \* what it returned
    calls,     \* number of operations called so far
    hist,      \* what the caller has seen the operations return
    lock,      \* ctx->lock: the thread holding it, "free" when none does
    pc         \* where each thread is in the operation it has called

vars == <<options, av, ctx, streams, codecs, lib, op, ret, calls, hist, lock, pc>>

----------------------------------------------------------------------------
(* Bounds of the model *)

\* operations called on a session over a run, construction included
MaxCalls == 6
\* frames handed to writeFrame over a run
MaxFrames == 2
\* largest packet payload size
MaxPacketSize == 2
\* statistics texts written over a run
MaxStats == 1

----------------------------------------------------------------------------
(* Strings and dictionaries *)

NULLSTR == <<>>

EmptyDict == [k \in {} |-> <<>>]

\* av_dict_get(d, key, NULL, 0): the value, NULLSTR when there is no entry
av_dict_get(d, key) == IF key \in DOMAIN d THEN d[key] ELSE NULLSTR

\* av_dict_set(&d, key, val, flags): a NULL value deletes the entry,
\* AV_DICT_APPEND appends to the existing value
av_dict_set(d, key, val, append) ==
    IF val = NULLSTR
    THEN [k \in (DOMAIN d) \ {key} |-> d[k]]
    ELSE [k \in (DOMAIN d) \cup {key} |->
            IF k = key
            THEN (IF append THEN av_dict_get(d, key) \o val ELSE val)
            ELSE d[k]]

IsSign(tok) == tok \in {"+", "-"}

\* strchr(val, '='): position of the first "=", 0 when there is none
strchr_equals(val) ==
    IF \E i \in 1..Len(val) : val[i] = "="
    THEN CHOOSE i \in 1..Len(val) : val[i] = "=" /\ \A j \in 1..(i-1) : val[j] # "="
    ELSE 0

\* the "qscale" rewrite: "%.1s(%s)*QP2LAMBDA"
qscale_value(val) ==
    IF val # NULLSTR /\ IsSign(val[1])
    THEN <<val[1], "(">> \o Tail(val) \o <<")*QP2LAMBDA">>
    ELSE <<"(">> \o val \o <<")*QP2LAMBDA">>

\* set_to_avdictionary(ctx, dictp, key, val): the dictionary afterwards.
\* key = "NULL" asks for val to be split at the first equals sign.
set_to_avdictionary(d, key, val) ==
    LET eq   == strchr_equals(val)
        k0   == IF key = "NULL"
                THEN (IF eq > 1 THEN val[1] ELSE "")
                ELSE key
        v0   == IF key = "NULL" THEN SubSeq(val, eq + 1, Len(val)) ELSE val
        k1   == IF k0 = "qscale" THEN "global_quality" ELSE k0
        v1   == IF k0 = "qscale" THEN qscale_value(v0) ELSE v0
    IN  IF key = "NULL" /\ eq = 0
        THEN d
        ELSE av_dict_set(d, k1, v1, v1 # NULLSTR /\ IsSign(v1[1]))

\* set_to_avdictionary over a NULL-terminated list of "key=value" strings
RECURSIVE set_all_to_avdictionary(_, _)
set_all_to_avdictionary(d, list) ==
    IF list = <<>>
    THEN d
    ELSE set_all_to_avdictionary(set_to_avdictionary(d, "NULL", Head(list)), Tail(list))

\* the loop of value_has_flag from position i on, with the loop's two locals
RECURSIVE value_has_flag_from(_, _, _, _, _)
value_has_flag_from(value, flag, i, state, r) ==
    IF i > Len(value)
    THEN r
    ELSE IF IsSign(value[i])
         THEN value_has_flag_from(value, flag, i + 1, value[i] = "+", r)
         ELSE value_has_flag_from(value, flag, i + 1, state,
                                  IF value[i] = flag THEN state ELSE r)

value_has_flag(value, flag) == value_has_flag_from(value, flag, 1, TRUE, FALSE)

----------------------------------------------------------------------------
(* The codec library and the chosen output *)

\* the encoders the codec library knows
Encoders ==
    { [name |-> "libx264", id |-> "h264", type |-> "video"],
      [name |-> "aac",     id |-> "aac",  type |-> "audio"] }

\* avcodec_find_encoder_by_name: name of the encoder, "NULL" when unknown
avcodec_find_encoder_by_name(n) ==
    IF \E e \in Encoders : e.name = n THEN n ELSE "NULL"

\* avcodec_find_encoder(id)
avcodec_find_encoder(id) ==
    IF \E e \in Encoders : e.id = id
    THEN (CHOOSE e \in Encoders : e.id = id).name
    ELSE "NULL"

encoder_type(n) ==
    IF \E e \in Encoders : e.name = n
    THEN (CHOOSE e \in Encoders : e.name = n).type
    ELSE "unknown"

\* the candidate loop of encode_lavc_init over a comma-separated codec list:
\* the first candidate that names an encoder of the wanted media type
RECURSIVE find_named_encoder(_, _)
find_named_encoder(names, mt) ==
    IF names = <<>>
    THEN "NULL"
    ELSE LET c == avcodec_find_encoder_by_name(Head(names))
         IN  IF c # "NULL" /\ encoder_type(c) = mt
             THEN c
             ELSE find_named_encoder(Tail(names), mt)

MediaTypes == {"video", "audio"}

----------------------------------------------------------------------------
(* Configurations: the options and the output format of one session *)

\* AVOutputFormat descriptors av_guess_format can resolve to
Matroska ==
    [found |-> TRUE, video_codec |-> "h264", audio_codec |-> "aac",
     nofile |-> FALSE, globalheader |-> TRUE]
AudioOnly ==
    [found |-> TRUE, video_codec |-> "NONE", audio_codec |-> "aac",
     nofile |-> FALSE, globalheader |-> FALSE]
\* a format that opens no file itself and whose default codecs have no encoder
NoFileFormat ==
    [found |-> TRUE, video_codec |-> "vp9", audio_codec |-> "NONE",
     nofile |-> TRUE, globalheader |-> FALSE]
\* av_guess_format found nothing: ctx->avc->oformat is NULL
NoFormat ==
    [found |-> FALSE, video_codec |-> "NONE", audio_codec |-> "NONE",
     nofile |-> FALSE, globalheader |-> FALSE]

\* --ovcopts / --oacopts lists
NoOpts == <<>>
Pass1Opts == << <<"flags", "=", "+", "pass1">> >>
Pass2Opts == << <<"flags", "=", "+", "pass2">> >>

\* tags handed to encode_lavc_set_metadata
TagChoices == {[k \in {"title"} |-> <<"t">>]}

\* frame rates the video output reports
FpsChoices == {25, 30}

\* presentation times the audio output reports
PtsChoices == {1}

\* statistics texts a codec leaves in stats_out (NULLSTR: none)
StatsChoices == {NULLSTR, <<"S1">>}

\* MP_NOPTS_VALUE, any value that is no valid timestamp
MP_NOPTS_VALUE == -1

\* struct encode_opts: --ovc, --oac (NULLSTR: not given), --ovcopts, --oacopts,
\* --ovfirst, --oafirst; the other options are the same in every configuration
MkOptions(vn, an, vo, ao, vfirst, afirst) ==
    [vcodec |-> vn, acodec |-> an, vopts |-> vo, aopts |-> ao, fopts |-> <<>>,
     fps |-> 0, autofps |-> TRUE,
     video_first |-> vfirst, audio_first |-> afirst,
     copy_metadata |-> TRUE,
     set_metadata |-> << <<"encoder", "mpv">> >>,
     remove_metadata |-> <<"comment">>]

\* the sessions explored: <<options, output format>>
Configs ==
    { <<MkOptions(NULLSTR, NULLSTR, Pass1Opts, NoOpts, TRUE, FALSE), Matroska>>,
      <<MkOptions(NULLSTR, NULLSTR, NoOpts, Pass1Opts, FALSE, TRUE), Matroska>>,
      <<MkOptions(<<"nosuch">>, NULLSTR, NoOpts, NoOpts, FALSE, FALSE), Matroska>>,
      <<MkOptions(NULLSTR, NULLSTR, NoOpts, NoOpts, FALSE, FALSE), AudioOnly>>,
      <<MkOptions(<<"aac", "libx264">>, NULLSTR, NoOpts, NoOpts, FALSE, FALSE), NoFileFormat>>,
      <<MkOptions(NULLSTR, NULLSTR, NoOpts, NoOpts, FALSE, FALSE), NoFileFormat>>,
      <<MkOptions(NULLSTR, <<"aac">>, NoOpts, NoOpts, FALSE, FALSE), NoFormat>> }

----------------------------------------------------------------------------
(* The session *)

\* talloc_zero(NULL, struct encode_lavc_context)
ZeroCtx ==
    [ failed |-> FALSE, finished |-> FALSE, header_written |-> 0,
      avc |-> FALSE, pb |-> FALSE, avc_metadata |-> EmptyDict,
      vc |-> "NULL", ac |-> "NULL",
      vcc |-> FALSE, acc |-> FALSE, vst |-> 0, ast |-> 0,
      timebase |-> [num |-> 0, den |-> 0],
      vo_fps |-> 0,
      expect_video |-> FALSE, expect_audio |-> FALSE,
      video_first |-> FALSE, audio_first |-> FALSE,
      vbytes |-> 0, abytes |-> 0, frames |-> 0, audioseconds |-> 0,
      t0 |-> 0,
      metadata |-> <<>>,
      foptions |-> EmptyDict, voptions |-> EmptyDict, aoptions |-> EmptyDict,
      twopass_bytebuffer_v |-> FALSE, twopass_bytebuffer_a |-> FALSE,
      last_audio_in_pts |-> 0, samples_since_last_pts |-> 0,
      audio_pts_offset |-> 0, last_video_in_pts |-> 0,
      discontinuity_pts_offset |-> 0 ]

ZeroCount == [mt \in MediaTypes |-> 0]

\* nothing has been called yet
ZeroLib ==
    [ session |-> "none",          \* "none", "live", "rejected" (init gave NULL), "freed",
                                   \* "crashed" (the process ended on a fault)
      avc_allocs |-> 0, avc_frees |-> 0,
      file_opens |-> 0, io_opened |-> 0, io_closes |-> 0,
      metadata_copies |-> 0,
      header_writes |-> 0,
      header_seen |-> <<>>,        \* the session as avformat_write_header found it, per call
      trailer_writes |-> 0,
      frames_written |-> 0,
      codec_allocs |-> ZeroCount, codec_frees |-> ZeroCount,
      stats_opens |-> ZeroCount, stats_closes |-> ZeroCount,
      stats_open_failed |-> [mt \in MediaTypes |-> {}],  \* passes whose log did not open
      teardowns |-> 0,
      log |-> [mt \in MediaTypes |-> <<>>] ]

NoCodec ==
    [ out |-> FALSE, time_base |-> [num |-> 0, den |-> 0],
      stats_in |-> NULLSTR, stats_out |-> NULLSTR, colorspace |-> 0, color_range |-> 0 ]

\* the guard of CHECK_FAIL and CHECK_FAIL_UNLOCK
CHECK_FAIL(c) == c.failed \/ c.finished

\* (variant: a codec counts as wanted whatever the format and the options say)
codec_wanted_always(o, a, mt) == TRUE
\* "oformat->video_codec != AV_CODEC_ID_NONE || options->vcodec" and its audio twin
codec_wanted(o, a, mt) ==
    IF mt = "video"
    THEN a.video_codec # "NONE" \/ o.vcodec # NULLSTR
    ELSE a.audio_codec # "NONE" \/ o.acodec # NULLSTR

\* "if (ctx->avc->pb)" of encode_lavc_finish: the I/O handle is closed when it was opened
\* (variant: only a session whose header was written closes it)
finish_closes_io_when_header_written(c) == c.pb /\ c.header_written > 0
finish_closes_io(c) == c.pb

\* (variant: the trailer is written whatever the header state)
finish_trailer_always(c) == TRUE
\* "if (ctx->header_written > 0) av_write_trailer(ctx->avc);"
finish_trailer(c) == c.header_written > 0

\* the statistics text encode_lavc_finish flushes for one slot
finish_stats(has_codec, bytebuffer, cd) ==
    IF has_codec /\ bytebuffer THEN cd.stats_out ELSE NULLSTR

\* encode_lavc_finish: the session afterwards
encode_lavc_finish_ctx(c) ==
    IF c.finished
    THEN c
    ELSE IF c.avc
         THEN [c EXCEPT !.vcc = FALSE, !.acc = FALSE, !.vst = 0, !.ast = 0,
                        !.twopass_bytebuffer_v = FALSE, !.twopass_bytebuffer_a = FALSE,
                        !.pb = FALSE, !.avc = FALSE, !.finished = TRUE]
         ELSE [c EXCEPT !.finished = TRUE]

\* encode_lavc_finish: the library calls it makes
encode_lavc_finish_lib(c, cds, l) ==
    IF c.finished
    THEN l
    ELSE IF c.avc
         THEN [l EXCEPT
                 !.trailer_writes = @ + (IF finish_trailer(c) THEN 1 ELSE 0),
                 !.codec_frees = [mt \in MediaTypes |->
                     @[mt] + (IF (mt = "video" /\ c.vcc) \/ (mt = "audio" /\ c.acc)
                              THEN 1 ELSE 0)],
                 !.log = [mt \in MediaTypes |->
                     @[mt] \o (IF mt = "video"
                               THEN finish_stats(c.vcc, c.twopass_bytebuffer_v, cds[mt])
                               ELSE finish_stats(c.acc, c.twopass_bytebuffer_a, cds[mt]))],
                 !.stats_closes = [mt \in MediaTypes |->
                     @[mt] + (IF (mt = "video" /\ c.twopass_bytebuffer_v)
                                 \/ (mt = "audio" /\ c.twopass_bytebuffer_a)
                              THEN 1 ELSE 0)],
                 !.io_closes = @ + (IF finish_closes_io(c) THEN 1 ELSE 0),
                 !.avc_frees = @ + 1,
                 !.teardowns = @ + 1]
         ELSE [l EXCEPT !.teardowns = @ + 1]

\* "if (ctx->failed) return;" of encode_lavc_fail
fail_is_noop(c) == c.failed

\* (variant: fail that sets the flag and leaves the teardown to the caller)
fail_without_finish(c) == [c EXCEPT !.failed = TRUE]

\* encode_lavc_fail: the session afterwards
encode_lavc_fail_ctx(c) ==
    IF fail_is_noop(c)
    THEN c
    ELSE encode_lavc_finish_ctx([c EXCEPT !.failed = TRUE])

\* encode_lavc_fail: the library calls it makes
encode_lavc_fail_lib(c, cds, l) ==
    IF fail_is_noop(c)
    THEN l
    ELSE encode_lavc_finish_lib([c EXCEPT !.failed = TRUE], cds, l)

----------------------------------------------------------------------------
(* Construction *)

\* the caller has seen nothing yet
ZeroHist ==
    [ start_failures |-> 0,     \* encode_lavc_start calls that returned 0
      alloc_mt |-> "none",      \* media type the last alloc_stream call asked for
      alloc_order |-> <<>>,     \* media types alloc_stream returned a stream for
      mux_rets |-> <<>>,        \* what av_interleaved_write_frame returned, per call
      trailer_rets |-> <<>>,    \* what av_write_trailer returned, per call
      \* whether packet->stream_index was the stream's index in the last
      \* write_frame call
      index_matched |-> TRUE,
      \* how the last open_codec call on each slot's codec context went:
      \* "none" (no call), "open2 failed", "parameters failed" (those of
      \* avcodec_parameters_from_context, after avcodec_open2 succeeded) or "ok"
      opened |-> [mt \in MediaTypes |-> "none"],
      \* the texts the write_stats calls of this session appended to each log,
      \* those of the pass-1 session before it on the same output (if any), and
      \* whether alloc_stream read the log into the codec's stats_in
      pass |-> 1,
      stats_written |-> [mt \in MediaTypes |-> <<>>],
      pass1_stats |-> [mt \in MediaTypes |-> <<>>],
      stats_in_read |-> [mt \in MediaTypes |-> FALSE],
      \* packets handed to av_interleaved_write_frame, per slot of their stream:
      \* on a stream whose codec open_codec had opened, and on one it had not
      sent_opened |-> [mt \in MediaTypes |-> [bytes |-> 0, frames |-> 0]],
      sent_unopened |-> [mt \in MediaTypes |-> [bytes |-> 0, frames |-> 0]] ]

\* the threads that call into a session
Threads == {"control", "producer"}

\* the thread is in no operation
Idle == [op |-> "none", at |-> "idle"]

Init ==
    /\ \E cfg \in Configs : options = cfg[1] /\ av = cfg[2]
    /\ ctx = ZeroCtx
    /\ streams = <<>>
    /\ codecs = [mt \in MediaTypes |-> NoCodec]
    /\ lib = ZeroLib
    /\ op = "none"
    /\ ret = <<>>
    /\ calls = 0
    /\ hist = ZeroHist
    /\ lock = "free"
    /\ pc = [t \in Threads |-> Idle]

\* the caller holds a session and may call an operation on it
Live == lib.session = "live" /\ calls < MaxCalls

\* the operation called in this step, run from its first statement to its
\* return: a lock it takes it has released
Called(name) == op' = name /\ calls' = calls + 1 /\ UNCHANGED <<lock, pc>>

\* the three assignments of encode_lavc_discontinuity
discontinuity_ctx(c) ==
    [c EXCEPT !.audio_pts_offset = MP_NOPTS_VALUE,
              !.last_video_in_pts = MP_NOPTS_VALUE,
              !.discontinuity_pts_offset = MP_NOPTS_VALUE]

\* av_guess_codec(oformat, NULL, url, NULL, type): the format's default codec id
av_guess_codec(a, mt) == IF mt = "video" THEN a.video_codec ELSE a.audio_codec

\* the encoder encode_lavc_init resolves for a media type
init_encoder(names, a, mt) ==
    IF names # NULLSTR
    THEN find_named_encoder(names, mt)
    ELSE avcodec_find_encoder(av_guess_codec(a, mt))

\* (variant: "||" for "&&")
init_no_codec_if_either_missing(vc, ac) == vc = "NULL" \/ ac = "NULL"
\* "if (!ctx->vc && !ctx->ac)" of encode_lavc_init
init_no_codec(vc, ac) == vc = "NULL" /\ ac = "NULL"

\* struct encode_lavc_context *encode_lavc_init(options, global);
\* ret is <<1>> when a session is returned, <<0>> when NULL is
encode_lavc_init ==
    /\ lib.session = "none"
    /\ LET c0 == [discontinuity_ctx(ZeroCtx) EXCEPT !.avc = TRUE]
           l0 == [lib EXCEPT !.avc_allocs = @ + 1]
           c1 == [c0 EXCEPT !.foptions = set_all_to_avdictionary(EmptyDict, options.fopts),
                            !.vc = init_encoder(options.vcodec, av, "video"),
                            !.ac = init_encoder(options.acodec, av, "audio")]
       IN  IF ~av.found
           THEN /\ ctx' = encode_lavc_fail_ctx(c0)
                /\ lib' = [encode_lavc_fail_lib(c0, codecs, l0) EXCEPT !.session = "rejected"]
                /\ ret' = <<0>>
           ELSE IF init_no_codec(c1.vc, c1.ac)
           THEN /\ ctx' = encode_lavc_fail_ctx(c1)
                /\ lib' = [encode_lavc_fail_lib(c1, codecs, l0) EXCEPT !.session = "rejected"]
                /\ ret' = <<0>>
           ELSE /\ ctx' = [c1 EXCEPT !.video_first = options.video_first,
                                     !.audio_first = options.audio_first]
                /\ lib' = [l0 EXCEPT !.session = "live"]
                /\ ret' = <<1>>
    /\ Called("init")
    /\ UNCHANGED <<hist, options, av, streams, codecs>>

----------------------------------------------------------------------------
(* Metadata *)

\* mp_tags_set_str over the key/value list of --oset-metadata
RECURSIVE tags_set_all(_, _)
tags_set_all(tags, kv) ==
    IF kv = <<>>
    THEN tags
    ELSE tags_set_all(av_dict_set(tags, Head(kv)[1], <<Head(kv)[2]>>, FALSE), Tail(kv))

\* mp_tags_remove_str over the key list of --oremove-metadata
RECURSIVE tags_remove_all(_, _)
tags_remove_all(tags, ks) ==
    IF ks = <<>>
    THEN tags
    ELSE tags_remove_all(av_dict_set(tags, Head(ks), NULLSTR, FALSE), Tail(ks))

\* the tags encode_lavc_set_metadata leaves in ctx->metadata
set_metadata_tags(o, metadata) ==
    tags_remove_all(
        tags_set_all(IF o.copy_metadata THEN metadata ELSE EmptyDict, o.set_metadata),
        o.remove_metadata)

\* void encode_lavc_set_metadata(ctx, metadata)
encode_lavc_set_metadata ==
    /\ Live
    /\ \E metadata \in TagChoices :
          ctx' = [ctx EXCEPT !.metadata = <<set_metadata_tags(options, metadata)>>]
    /\ Called("set_metadata")
    /\ ret' = <<>>
    /\ UNCHANGED <<hist, options, av, streams, codecs, lib>>

----------------------------------------------------------------------------
(* Header lifecycle *)

\* success or failure of a library call, told apart only when the call is made
LibOutcomes(made) == IF made THEN BOOLEAN ELSE {TRUE}

\* what av_write_trailer can answer in this step: told apart only on a session
\* whose teardown has not run and whose header was written
TrailerOutcomes == LibOutcomes(~ctx.finished /\ ctx.avc /\ ctx.header_written > 0)

\* "av_write_trailer(ctx->avc);  // this is allowed to fail": the value is
\* dropped by encode_lavc_finish, the caller of the model keeps it
trailer_seen(trailer_ok) ==
    IF lib'.trailer_writes # lib.trailer_writes
    THEN [hist EXCEPT !.trailer_rets = Append(@, IF trailer_ok THEN 0 ELSE -1)]
    ELSE hist

\* (variant: without "if (ctx->header_written > 0) return 1;")
start_gate_without_started_return(c) ==
    IF c.header_written < 0 THEN "ret0"
    ELSE IF CHECK_FAIL(c) THEN "ret0"
    ELSE "go"
\* (variant: only a started session returns early)
start_gate_only_started(c) == IF c.header_written > 0 THEN "ret1" ELSE "go"
\* the early returns of encode_lavc_start: "ret0", "ret1" or "go"
start_gate(c) ==
    IF c.header_written < 0 THEN "ret0"
    ELSE IF c.header_written > 0 THEN "ret1"
    ELSE IF CHECK_FAIL(c) THEN "ret0"
    ELSE "go"

\* (variant: the expectations are not checked)
expected_stream_missing_never(c, o, a) == FALSE
\* (variant: an expected stream that is missing always fails the session)
expected_stream_missing_strict(c, o, a) ==
    \/ c.expect_video /\ ~c.vcc
    \/ c.expect_audio /\ ~c.acc
\* the two expectation checks of encode_lavc_start
expected_stream_missing(c, o, a) ==
    \/ c.expect_video /\ ~c.vcc /\ codec_wanted(o, a, "video")
    \/ c.expect_audio /\ ~c.acc /\ codec_wanted(o, a, "audio")

\* the loop copying ctx->metadata into ctx->avc->metadata
copy_metadata(avc_metadata, tags) ==
    [k \in (DOMAIN avc_metadata) \cup (DOMAIN tags) |->
        IF k \in DOMAIN tags THEN tags[k] ELSE avc_metadata[k]]

\* lines 336-373 of encode_lavc_start, what follows the expectation checks:
\* the session, the library calls and the value returned; open_ok and
\* header_ok are what avio_open and avformat_write_header answer
start_header(c, l, cds, a, open_ok, header_ok) ==
    LET c1 == [c EXCEPT !.header_written = -1]
        opens == ~a.nofile
        l1 == IF opens THEN [l EXCEPT !.file_opens = @ + 1,
                                      !.io_opened = @ + (IF open_ok THEN 1 ELSE 0)]
                   ELSE l
        c2 == [c1 EXCEPT !.pb = opens, !.t0 = 1,
                         !.avc_metadata =
                             IF c1.metadata # <<>>
                             THEN copy_metadata(@, c1.metadata[1]) ELSE @]
        l2 == [l1 EXCEPT !.metadata_copies = @ + (IF c1.metadata # <<>> THEN 1 ELSE 0),
                         !.header_writes = @ + 1,
                         !.header_seen = Append(@,
                             [expect_video |-> c2.expect_video, vcc |-> c2.vcc,
                              expect_audio |-> c2.expect_audio, acc |-> c2.acc])]
    IN  IF opens /\ ~open_ok
        THEN [ctx |-> encode_lavc_fail_ctx(c1),
              lib |-> encode_lavc_fail_lib(c1, cds, l1), ret |-> <<0>>]
        ELSE IF ~header_ok
        THEN [ctx |-> encode_lavc_fail_ctx(c2),
              lib |-> encode_lavc_fail_lib(c2, cds, l2), ret |-> <<0>>]
        ELSE [ctx |-> [c2 EXCEPT !.foptions = EmptyDict, !.header_written = 1],
              lib |-> l2, ret |-> <<1>>]

\* int encode_lavc_start(ctx)
encode_lavc_start ==
    /\ Live
    /\ \E open_ok \in LibOutcomes(start_gate(ctx) = "go"),
          header_ok \in LibOutcomes(start_gate(ctx) = "go") :
        LET gate == start_gate(ctx)
            h == start_header(ctx, lib, codecs, av, open_ok, header_ok)
        IN  IF gate # "go"
            THEN /\ ret' = IF gate = "ret1" THEN <<1>> ELSE <<0>>
                 /\ UNCHANGED <<ctx, lib>>
            ELSE IF expected_stream_missing(ctx, options, av)
            THEN /\ ctx' = encode_lavc_fail_ctx(ctx)
                 /\ lib' = encode_lavc_fail_lib(ctx, codecs, lib)
                 /\ ret' = <<0>>
            ELSE /\ ctx' = h.ctx
                 /\ lib' = h.lib
                 /\ ret' = h.ret
    /\ Called("start")
    /\ hist' = [hist EXCEPT !.start_failures = @ + (IF ret' = <<0>> THEN 1 ELSE 0)]
    /\ UNCHANGED <<options, av, streams, codecs>>

----------------------------------------------------------------------------
(* Fail / finish / free *)

\* void encode_lavc_finish(ctx)
encode_lavc_finish ==
    /\ Live
    /\ ctx' = encode_lavc_finish_ctx(ctx)
    /\ lib' = encode_lavc_finish_lib(ctx, codecs, lib)
    /\ \E trailer_ok \in TrailerOutcomes : hist' = trailer_seen(trailer_ok)
    /\ Called("finish")
    /\ ret' = <<>>
    /\ UNCHANGED <<options, av, streams, codecs>>

\* void encode_lavc_fail(ctx, format, ...)
encode_lavc_fail ==
    /\ Live
    /\ ctx' = encode_lavc_fail_ctx(ctx)
    /\ lib' = encode_lavc_fail_lib(ctx, codecs, lib)
    /\ \E trailer_ok \in TrailerOutcomes : hist' = trailer_seen(trailer_ok)
    /\ Called("fail")
    /\ ret' = <<>>
    /\ UNCHANGED <<options, av, streams, codecs>>

\* (variant: free releases the session as it is)
free_forces_fail_never(c) == FALSE
\* "if (!ctx->finished)" of encode_lavc_free
free_forces_fail(c) == ~c.finished

\* void encode_lavc_free(ctx); ctx keeps the values the session had when it
\* was released
encode_lavc_free ==
    /\ Live
    /\ ctx' = IF free_forces_fail(ctx) THEN encode_lavc_fail_ctx(ctx) ELSE ctx
    /\ lib' = [(IF free_forces_fail(ctx) THEN encode_lavc_fail_lib(ctx, codecs, lib) ELSE lib)
                  EXCEPT !.session = "freed"]
    /\ \E trailer_ok \in TrailerOutcomes : hist' = trailer_seen(trailer_ok)
    /\ Called("free")
    /\ ret' = <<>>
    /\ UNCHANGED <<options, av, streams, codecs>>

----------------------------------------------------------------------------
(* Hints from the producers *)

\* void encode_lavc_set_video_fps(ctx, fps)
encode_lavc_set_video_fps ==
    /\ Live
    /\ \E fps \in FpsChoices : ctx' = [ctx EXCEPT !.vo_fps = fps]
    /\ Called("set_video_fps")
    /\ ret' = <<>>
    /\ UNCHANGED <<hist, options, av, streams, codecs, lib>>

\* void encode_lavc_set_audio_pts(ctx, pts)
encode_lavc_set_audio_pts ==
    /\ Live
    /\ \E pts \in PtsChoices :
          ctx' = [ctx EXCEPT !.last_audio_in_pts = pts, !.samples_since_last_pts = 0]
    /\ Called("set_audio_pts")
    /\ ret' = <<>>
    /\ UNCHANGED <<hist, options, av, streams, codecs, lib>>

\* void encode_lavc_discontinuity(ctx)
encode_lavc_discontinuity ==
    /\ Live
    /\ ctx' = IF CHECK_FAIL(ctx) THEN ctx ELSE discontinuity_ctx(ctx)
    /\ Called("discontinuity")
    /\ ret' = <<>>
    /\ UNCHANGED <<hist, options, av, streams, codecs, lib>>

\* void encode_lavc_expect_stream(ctx, mt)
encode_lavc_expect_stream ==
    /\ Live
    /\ \E mt \in MediaTypes \cup {"subtitle"} :
          ctx' = IF CHECK_FAIL(ctx) THEN ctx
                 ELSE IF mt = "video" THEN [ctx EXCEPT !.expect_video = TRUE]
                 ELSE IF mt = "audio" THEN [ctx EXCEPT !.expect_audio = TRUE]
                 ELSE ctx
    /\ Called("expect_stream")
    /\ ret' = <<>>
    /\ UNCHANGED <<hist, options, av, streams, codecs, lib>>

\* bool encode_lavc_didfail(ctx)
encode_lavc_didfail ==
    /\ Live
    /\ Called("didfail")
    /\ ret' = <<IF ctx.failed THEN 1 ELSE 0>>
    /\ UNCHANGED <<hist, options, av, ctx, streams, codecs, lib>>

----------------------------------------------------------------------------
(* Stream allocation *)

\* avformat_new_stream(ctx->avc, NULL): a stream of type AVMEDIA_TYPE_UNKNOWN;
\* out: the stream has been returned to a caller of alloc_stream
NewStream ==
    [codec_type |-> "unknown", time_base |-> [num |-> 0, den |-> 0], out |-> FALSE]

\* the encoder's supported_framerates list ({}: NULL)
supported_framerates(vc) == {}

AbsDiff(x, y) == IF x >= y THEN x - y ELSE y - x

\* supported_framerates[av_find_nearest_q_idx(r, supported_framerates)]
nearest_framerate(r, list) ==
    CHOOSE q \in list :
        \A p \in list : AbsDiff(q.num * r.den, r.num * q.den) * p.den
                          <= AbsDiff(p.num * r.den, r.num * p.den) * q.den

\* av_d2q of a frame rate; frame rates are whole numbers here
av_d2q(fps) == [num |-> fps, den |-> 1]

\* the frame rate alloc_stream settles on when ctx->timebase.den == 0
negotiated_rate(c, o) ==
    LET r == IF o.fps > 0 THEN av_d2q(o.fps)
             ELSE IF o.autofps /\ c.vo_fps > 0 THEN av_d2q(c.vo_fps)
             ELSE [num |-> 24000, den |-> 1]
    IN  IF c.vc # "NULL" /\ supported_framerates(c.vc) # {}
        THEN nearest_framerate(r, supported_framerates(c.vc))
        ELSE r

\* (variant: every alloc_stream negotiates anew)
negotiate_timebase_always(c, o) ==
    LET r == negotiated_rate(c, o) IN [num |-> r.den, den |-> r.num]
\* "if (ctx->timebase.den == 0) { ... }": ctx->timebase afterwards
negotiate_timebase(c, o) ==
    IF c.timebase.den = 0
    THEN LET r == negotiated_rate(c, o) IN [num |-> r.den, den |-> r.num]
    ELSE c.timebase

\* what a read through the stale "de" of encode_2pass_prepare can yield once
\* av_dict_set has moved the entries of the dictionary it points into
StaleValues == {NULLSTR, <<"pass1">>}

\* encode_2pass_prepare(ctx, dictp, stream, codec, bytebuf, prefix) for the slot
\* mt: voptions is ctx->voptions, dict is *dictp, bytebuf is *bytebuf != NULL.
\* rd_ok, read_ok, wr_ok: stream_open, stream_read_complete and
\* open_output_stream succeed; stale: see StaleValues.
\* The result: [dict, bytebuf, stats_in, read, opens, closes, failed, truncated].
encode_2pass_prepare(voptions, dict, bytebuf, mt, log, rd_ok, read_ok, wr_ok, stale) ==
    LET value == av_dict_get(voptions, "flags")
        pass2 == ~bytebuf /\ value_has_flag(value, "pass2")
        strip2 == pass2 /\ ~rd_ok
        d1 == IF strip2 THEN set_to_avdictionary(dict, "flags", <<"-", "pass2">>) ELSE dict
        \* "de" still points at the entry looked up before the dictionary changed
        value2 == IF strip2 /\ mt = "video" THEN stale ELSE value
        pass1 == ~bytebuf /\ value_has_flag(value2, "pass1")
        strip1 == pass1 /\ ~wr_ok
    IN  [ dict |-> IF strip1 THEN set_to_avdictionary(d1, "flags", <<"-", "pass1">>) ELSE d1,
          bytebuf |-> bytebuf \/ (pass1 /\ wr_ok),
          read |-> pass2 /\ rd_ok /\ read_ok,
          stats_in |-> IF pass2 /\ rd_ok /\ read_ok THEN log ELSE NULLSTR,
          opens |-> (IF pass2 /\ rd_ok THEN 1 ELSE 0) + (IF pass1 /\ wr_ok THEN 1 ELSE 0),
          closes |-> IF pass2 /\ rd_ok THEN 1 ELSE 0,
          failed |-> (IF strip2 THEN {"pass2"} ELSE {}) \cup (IF strip1 THEN {"pass1"} ELSE {}),
          truncated |-> pass1 /\ wr_ok ]

\* the per-slot option dictionary alloc_stream builds before encode_2pass_prepare
slot_options(list, a) ==
    LET d0 == set_all_to_avdictionary(EmptyDict, list)
        d1 == IF av_dict_get(d0, "global_quality") # NULLSTR
              THEN set_to_avdictionary(d0, "flags", <<"+", "qscale">>) ELSE d0
    IN  IF a.globalheader
        THEN set_to_avdictionary(d1, "flags", <<"+", "global_header">>) ELSE d1

\* whether this call of alloc_stream can get as far as asking for the log of
\* the given pass, so that the outcome of opening it matters
asks_for_log(mt, pass) ==
    /\ mt \in MediaTypes
    /\ ~CHECK_FAIL(ctx) /\ ctx.header_written = 0
    /\ \E list \in {options.vopts, options.aopts} : \E i \in 1..Len(list) :
          \E j \in 1..Len(list[i]) : list[i][j] = pass

\* the outcomes of opening (or reading) a statistics log that are told apart
OpenOutcomes(mt, pass) == IF asks_for_log(mt, pass) THEN BOOLEAN ELSE {TRUE}
StaleOutcomes(mt) == IF asks_for_log(mt, "pass2") THEN StaleValues ELSE {NULLSTR}

\* (variant: no stream is allocated ahead of its turn)
preallocated_never(c, mt, nb_streams) == "none"
\* "if (ctx->avc->nb_streams == 0) { ... }": the slot that gets a stream of
\* type AVMEDIA_TYPE_UNKNOWN ahead of the requested one, "none" if none
preallocated(c, mt, nb_streams) ==
    IF nb_streams = 0 /\ mt = "video" /\ c.audio_first THEN "audio"
    ELSE IF nb_streams = 0 /\ mt = "audio" /\ c.video_first THEN "video"
    ELSE "none"

\* (variant: a slot can be allocated again)
slot_taken_never(c, mt) == FALSE
\* "if (ctx->vcc != NULL) return -1;" and its audio twin
slot_taken(c, mt) == (mt = "video" /\ c.vcc) \/ (mt = "audio" /\ c.acc)

\* (variant: streams may be added after start)
alloc_after_start_allowed(c) == FALSE
\* "if (ctx->header_written) return -1;" of encode_lavc_alloc_stream
alloc_after_start(c) == c.header_written # 0

\* the media type whose codec context this step handed out, "none" if none
Allocated ==
    IF codecs'["video"].out /\ ~codecs["video"].out THEN "video"
    ELSE IF codecs'["audio"].out /\ ~codecs["audio"].out THEN "audio"
    ELSE "none"

\* int encode_lavc_alloc_stream(ctx, mt, stream_out, codec_out)
encode_lavc_alloc_stream ==
    /\ Live
    /\ \E mt \in MediaTypes \cup {"subtitle"} :
       \E rd_ok \in OpenOutcomes(mt, "pass2"), read_ok \in OpenOutcomes(mt, "pass2"),
          wr_ok \in OpenOutcomes(mt, "pass1"), stale \in StaleOutcomes(mt) :
        /\ LET pre_a == preallocated(ctx, mt, Len(streams)) = "audio"
               pre_v == preallocated(ctx, mt, Len(streams)) = "video"
               s1 == IF pre_a \/ pre_v THEN Append(streams, NewStream) ELSE streams
               c1 == [ctx EXCEPT !.ast = IF pre_a THEN Len(s1) ELSE @,
                                 !.vst = IF pre_v THEN Len(s1) ELSE @]
               slot == IF mt = "video" THEN c1.vst ELSE c1.ast
               s2 == IF slot = 0 THEN Append(s1, NewStream) ELSE s1
               at == IF slot = 0 THEN Len(s2) ELSE slot
               c2 == IF mt = "video" THEN [c1 EXCEPT !.vst = at] ELSE [c1 EXCEPT !.ast = at]
               c3 == [c2 EXCEPT !.timebase = negotiate_timebase(c2, options)]
               enc == IF mt = "video" THEN c3.vc ELSE c3.ac
               d0 == slot_options(IF mt = "video" THEN options.vopts ELSE options.aopts, av)
               c4 == IF mt = "video" THEN [c3 EXCEPT !.vcc = TRUE, !.voptions = d0]
                     ELSE [c3 EXCEPT !.acc = TRUE, !.aoptions = d0]
               tp == encode_2pass_prepare(c4.voptions, d0,
                         IF mt = "video" THEN c4.twopass_bytebuffer_v
                         ELSE c4.twopass_bytebuffer_a,
                         mt, lib.log[mt], rd_ok, read_ok, wr_ok, stale)
           IN  IF CHECK_FAIL(ctx) \/ alloc_after_start(ctx)
               THEN /\ ret' = <<-1>>
                    /\ UNCHANGED <<ctx, streams, codecs, lib>>
               ELSE IF slot_taken(c1, mt)
               THEN /\ ret' = <<-1>>
                    /\ ctx' = c1
                    /\ streams' = s1
                    /\ UNCHANGED <<codecs, lib>>
               ELSE IF mt \notin MediaTypes
               THEN /\ ret' = <<-1>>
                    /\ ctx' = encode_lavc_fail_ctx(c1)
                    /\ lib' = encode_lavc_fail_lib(c1, codecs, lib)
                    /\ streams' = s1
                    /\ UNCHANGED codecs
               ELSE IF enc = "NULL"
               THEN /\ ret' = <<-1>>
                    /\ ctx' = IF codec_wanted(options, av, mt)
                              THEN encode_lavc_fail_ctx(c3) ELSE c3
                    /\ lib' = IF codec_wanted(options, av, mt)
                              THEN encode_lavc_fail_lib(c3, codecs, lib) ELSE lib
                    /\ streams' = s2
                    /\ UNCHANGED codecs
               ELSE /\ ret' = <<0>>
                    /\ ctx' = IF mt = "video"
                              THEN [c4 EXCEPT !.voptions = tp.dict,
                                              !.twopass_bytebuffer_v = tp.bytebuf]
                              ELSE [c4 EXCEPT !.aoptions = tp.dict,
                                              !.twopass_bytebuffer_a = tp.bytebuf]
                    /\ streams' = [s2 EXCEPT ![at].time_base = c3.timebase, ![at].out = TRUE]
                    /\ codecs' = [codecs EXCEPT ![mt] =
                                     [NoCodec EXCEPT !.out = TRUE,
                                                     !.time_base = c3.timebase,
                                                     !.stats_in = tp.stats_in]]
                    /\ lib' = [lib EXCEPT !.codec_allocs[mt] = @ + 1,
                                          !.stats_opens[mt] = @ + tp.opens,
                                          !.stats_closes[mt] = @ + tp.closes,
                                          !.stats_open_failed[mt] = @ \cup tp.failed,
                                          !.log[mt] = IF tp.truncated THEN <<>> ELSE @]
        /\ hist' = [hist EXCEPT !.alloc_mt = mt,
                                !.alloc_order =
                                    IF ret' = <<0>> THEN Append(@, Allocated) ELSE @,
                                !.stats_in_read =
                                    IF ret' = <<0>> /\ lib'.stats_closes # lib.stats_closes
                                    THEN [@ EXCEPT ![mt] = read_ok] ELSE @]
    /\ Called("alloc_stream")
    /\ UNCHANGED <<options, av>>

----------------------------------------------------------------------------
(* Codec opening, statistics, frames *)

\* (variant: what avcodec_parameters_from_context returns is dropped)
open_codec_ret_of_open2(ct, open_ret, par_ret) ==
    IF ct \notin MediaTypes THEN -1 ELSE open_ret
\* "ret = avcodec_open2(...); if (ret >= 0) ret =
\* avcodec_parameters_from_context(...);" and "default: ret = -1;"
open_codec_ret(ct, open_ret, par_ret) ==
    IF ct \notin MediaTypes THEN -1
    ELSE IF open_ret >= 0 THEN par_ret ELSE open_ret

\* int encode_lavc_open_codec(ctx, codec): codec is a context alloc_stream
\* returned (its codec_type is the slot's) or a context of another type;
\* open_ok and par_ok: avcodec_open2 and avcodec_parameters_from_context
\* return 0 rather than a negative code
encode_lavc_open_codec ==
    /\ Live
    /\ \E ct \in MediaTypes \cup {"subtitle"}, open_ok \in LibOutcomes(~CHECK_FAIL(ctx)),
          par_ok \in LibOutcomes(~CHECK_FAIL(ctx)), trailer_ok \in TrailerOutcomes :
        /\ ct \in MediaTypes => codecs[ct].out
        /\ LET open_ret == IF open_ok THEN 0 ELSE -1
               par_ret == IF par_ok THEN 0 ELSE -1
               r == open_codec_ret(ct, open_ret, par_ret)
               st == IF ct = "video" THEN ctx.vst ELSE ctx.ast
               c1 == IF ct = "video" THEN [ctx EXCEPT !.voptions = EmptyDict]
                     ELSE IF ct = "audio" THEN [ctx EXCEPT !.aoptions = EmptyDict]
                     ELSE ctx
           IN  IF CHECK_FAIL(ctx)
               THEN /\ ret' = <<-1>>
                    /\ UNCHANGED <<ctx, streams, lib>>
               ELSE /\ ret' = <<r>>
                    /\ streams' = IF ct \in MediaTypes /\ open_ret >= 0
                                  THEN [streams EXCEPT ![st].codec_type = ct]
                                  ELSE streams
                    /\ ctx' = IF r < 0 THEN encode_lavc_fail_ctx(c1) ELSE c1
                    /\ lib' = IF r < 0 THEN encode_lavc_fail_lib(c1, codecs, lib) ELSE lib
        /\ hist' = IF CHECK_FAIL(ctx)
                   THEN hist
                   ELSE IF ct \notin MediaTypes
                   THEN trailer_seen(trailer_ok)
                   ELSE [trailer_seen(trailer_ok) EXCEPT !.opened[ct] =
                           IF ~open_ok THEN "open2 failed"
                           ELSE IF ~par_ok THEN "parameters failed"
                           ELSE "ok"]
    /\ Called("open_codec")
    /\ UNCHANGED <<options, av, codecs>>

\* void encode_lavc_write_stats(ctx, codec): codec is a context alloc_stream
\* returned; stats is what the encoder left in codec->stats_out
encode_lavc_write_stats ==
    /\ Live
    /\ Len(lib.log["video"]) + Len(lib.log["audio"]) < MaxStats
    /\ \E ct \in MediaTypes, stats \in StatsChoices :
        /\ codecs[ct].out
        /\ IF CHECK_FAIL(ctx)
           THEN UNCHANGED <<codecs, lib, hist>>
           ELSE /\ codecs' = [codecs EXCEPT ![ct].stats_out = stats]
                /\ IF (IF ct = "video" THEN ctx.twopass_bytebuffer_v
                       ELSE ctx.twopass_bytebuffer_a)
                   THEN /\ lib' = [lib EXCEPT !.log[ct] = @ \o stats]
                        /\ hist' = [hist EXCEPT !.stats_written[ct] = @ \o stats]
                   ELSE UNCHANGED <<lib, hist>>
    /\ Called("write_stats")
    /\ ret' = <<>>
    /\ UNCHANGED <<options, av, ctx, streams>>

\* (variant: "< 0" for "<= 0")
write_before_start_unless_failed(c) == c.header_written < 0
\* "if (ctx->header_written <= 0) return -1;" of encode_lavc_write_frame
write_before_start(c) == c.header_written <= 0

\* packet->size, told apart only when the packet is counted
PacketSizes(rejected) == IF rejected THEN {1} ELSE 1..MaxPacketSize

\* packet->stream_index, told apart only when the code looks at it
StreamIndexes(index, guarded) == IF guarded THEN {index} ELSE 0..1

\* (variant: the packet's stream index is not looked at)
wrong_stream_never(index, stream_index) == FALSE
\* "if (stream->index != packet->stream_index)" of encode_lavc_write_frame
wrong_stream(index, stream_index) == index # stream_index

\* (variant: no CHECK_FAIL)
write_frame_unguarded(c) == FALSE
\* "CHECK_FAIL(ctx, -1);" of encode_lavc_write_frame
write_frame_guard(c) == CHECK_FAIL(c)

\* a negative code of av_interleaved_write_frame, other than the -1 of the
\* early returns of encode_lavc_write_frame
MUX_ERROR == -5

\* what av_interleaved_write_frame can return, told apart only when it is called
MuxOutcomes(made) == IF made THEN {0, MUX_ERROR} ELSE {0}

\* (variant: a failed write is reported as -1)
write_frame_return_flattened(r) == IF r < 0 THEN -1 ELSE 0
\* "r = av_interleaved_write_frame(ctx->avc, packet); return r;"
write_frame_return(r) == r

\* (variant: every packet counts as a frame)
count_packet_frames_any(c, codec_type, size, seconds) ==
    IF codec_type = "video"
    THEN [c EXCEPT !.vbytes = @ + size, !.frames = @ + 1]
    ELSE IF codec_type = "audio"
    THEN [c EXCEPT !.abytes = @ + size, !.frames = @ + 1,
                   !.audioseconds = @ + seconds]
    ELSE c
\* "switch (stream->codecpar->codec_type) { ... }" of encode_lavc_write_frame:
\* the counters after a packet of the given size; seconds stands for
\* packet->duration * time_base.num / time_base.den
count_packet(c, codec_type, size, seconds) ==
    IF codec_type = "video"
    THEN [c EXCEPT !.vbytes = @ + size, !.frames = @ + 1]
    ELSE IF codec_type = "audio"
    THEN [c EXCEPT !.abytes = @ + size, !.audioseconds = @ + seconds]
    ELSE c

\* int encode_lavc_write_frame(ctx, stream, packet): stream is a stream
\* alloc_stream returned; mux_ret: what av_interleaved_write_frame returns
encode_lavc_write_frame ==
    /\ Live
    /\ lib.frames_written < MaxFrames
    /\ \E s \in 1..Len(streams) :
       \E stream_index \in StreamIndexes(s - 1, CHECK_FAIL(ctx)),
          size \in PacketSizes(write_frame_guard(ctx) \/ write_before_start(ctx)),
          mux_ret \in MuxOutcomes(~(write_frame_guard(ctx) \/ write_before_start(ctx))) :
        /\ streams[s].out
        /\ IF write_frame_guard(ctx)
           THEN /\ ret' = <<-1>>
                /\ UNCHANGED <<ctx, lib>>
           ELSE IF wrong_stream(s - 1, stream_index)
           THEN /\ ret' = <<-1>>
                /\ UNCHANGED <<ctx, lib>>
           ELSE IF write_before_start(ctx)
           THEN /\ ret' = <<-1>>
                /\ UNCHANGED <<ctx, lib>>
           ELSE /\ ctx' = count_packet(ctx, streams[s].codec_type, size,
                                       streams[s].time_base.num)
                /\ lib' = [lib EXCEPT !.frames_written = @ + 1]
                /\ ret' = <<write_frame_return(mux_ret)>>
        /\ hist' = IF lib'.frames_written = lib.frames_written
                   THEN [hist EXCEPT !.index_matched = (s - 1 = stream_index)]
                   ELSE LET slot == IF s = ctx.vst THEN "video" ELSE "audio"
                            h == [hist EXCEPT !.mux_rets = Append(@, mux_ret),
                                              !.index_matched = (s - 1 = stream_index)]
                        IN  IF streams[s].codec_type = "unknown"
                            THEN [h EXCEPT !.sent_unopened[slot].bytes = @ + size,
                                           !.sent_unopened[slot].frames = @ + 1]
                            ELSE [h EXCEPT !.sent_opened[slot].bytes = @ + size,
                                           !.sent_opened[slot].frames = @ + 1]
    /\ Called("write_frame")
    /\ UNCHANGED <<options, av, streams, codecs>>

----------------------------------------------------------------------------
(* Status and the read-only queries *)

\* int encode_lavc_getstatus(ctx, buf, bufsize, relative_position)
encode_lavc_getstatus ==
    /\ Live
    /\ Called("getstatus")
    /\ ret' = IF CHECK_FAIL(ctx) THEN <<-1>> ELSE <<0>>
    /\ UNCHANGED <<hist, options, av, ctx, streams, codecs, lib>>

\* bool encode_lavc_set_csp(ctx, codec, csp), codec the video context
\* alloc_stream returned
encode_lavc_set_csp ==
    /\ Live
    /\ codecs["video"].out
    /\ \E csp \in {1} :
        IF CHECK_FAIL(ctx) \/ ctx.header_written # 0
        THEN /\ ret' = <<0>>
             /\ UNCHANGED codecs
        ELSE /\ ret' = <<1>>
             /\ codecs' = [codecs EXCEPT !["video"].colorspace = csp]
    /\ Called("set_csp")
    /\ UNCHANGED <<hist, options, av, ctx, streams, lib>>

\* int encode_lavc_available(ctx)
encode_lavc_available ==
    /\ Live
    /\ Called("available")
    /\ ret' = IF CHECK_FAIL(ctx) THEN <<0>> ELSE <<IF ctx.avc THEN 1 ELSE 0>>
    /\ UNCHANGED <<hist, options, av, ctx, streams, codecs, lib>>

\* The caller encodes the same output again, with pass2 for pass1 in
\* --ovcopts: a new session whose encode_2pass_prepare builds the same log
\* names from the same url, after the pass-1 session has been freed.
second_pass ==
    /\ lib.session = "freed"
    /\ hist.pass = 1
    /\ options.vopts = Pass1Opts
    /\ options' = [options EXCEPT !.vopts = Pass2Opts]
    /\ ctx' = ZeroCtx
    /\ streams' = <<>>
    /\ codecs' = [mt \in MediaTypes |-> NoCodec]
    /\ lib' = [ZeroLib EXCEPT !.log = lib.log]
    /\ op' = "none"
    /\ ret' = <<>>
    /\ calls' = 0
    /\ hist' = [ZeroHist EXCEPT !.pass = 2, !.pass1_stats = hist.stats_written]
    /\ UNCHANGED <<av, lock, pc>>

Next ==
    \/ encode_lavc_init
    \/ encode_lavc_set_metadata
    \/ encode_lavc_start
    \/ encode_lavc_finish
    \/ encode_lavc_fail
    \/ encode_lavc_free
    \/ encode_lavc_set_video_fps
    \/ encode_lavc_set_audio_pts
    \/ encode_lavc_discontinuity
    \/ encode_lavc_expect_stream
    \/ encode_lavc_didfail
    \/ encode_lavc_alloc_stream
    \/ encode_lavc_open_codec
    \/ encode_lavc_write_stats
    \/ encode_lavc_write_frame
    \/ encode_lavc_getstatus
    \/ encode_lavc_set_csp
    \/ encode_lavc_available

Spec == Init /\ [][Next]_vars

\* Two passes over one output: a pass-1 session, then a pass-2 session
InitTwoPass == Init /\ options.vopts = Pass1Opts

NextTwoPass ==
    \/ encode_lavc_init
    \/ encode_lavc_alloc_stream
    \/ encode_lavc_open_codec
    \/ encode_lavc_write_stats
    \/ encode_lavc_finish
    \/ encode_lavc_free
    \/ second_pass

SpecTwoPass == InitTwoPass /\ [][NextTwoPass]_vars

----------------------------------------------------------------------------
(* Threads: the operations statement by statement, between the points where *)
(* they take or give up ctx->lock or touch a field another thread may touch *)

\* operations called by the threads over a run
MaxThreadCalls == 3

\* the value CHECK_FAIL_UNLOCK returns in each operation that uses it
FailSentinelOf(name) == IF name = "getstatus" THEN <<-1>> ELSE <<>>

\* the operations that take ctx->lock, and those of them that start with
\* CHECK_FAIL_UNLOCK
LockingOps ==
    {"set_video_fps", "set_audio_pts", "discontinuity", "getstatus", "expect_stream",
     "didfail"}
GuardingOps == {"discontinuity", "getstatus", "expect_stream"}

\* the operations a thread may call; encode_lavc_start is left to one thread
ThreadOps(t) ==
    LockingOps \cup {"fail", "finish"} \cup (IF t = "control" THEN {"start"} ELSE {})

\* the first statement of an operation
Entry(name) ==
    IF name \in LockingOps THEN "lock"
    ELSE IF name = "start" THEN "gate"
    ELSE IF name = "finish" THEN "finish"
    ELSE "check"

\* the thread moves on to another statement of its operation
Goto(t, at) == pc' = [pc EXCEPT ![t].at = at]

\* the thread returns from its operation with the given value
Return(t, val) == pc' = [pc EXCEPT ![t] = Idle] /\ op' = pc[t].op /\ ret' = val

\* a thread calls an operation on the session
thread_call(t) ==
    /\ lib.session = "live" /\ calls < MaxThreadCalls + 1
    /\ pc[t] = Idle
    /\ \E name \in ThreadOps(t) : pc' = [pc EXCEPT ![t] = [op |-> name, at |-> Entry(name)]]
    /\ calls' = calls + 1
    /\ UNCHANGED <<options, av, ctx, streams, codecs, lib, op, ret, hist, lock>>

\* pthread_mutex_lock(&ctx->lock)
pthread_mutex_lock(t) ==
    /\ pc[t].at = "lock"
    /\ lock = "free"
    /\ lock' = t
    /\ Goto(t, IF pc[t].op \in GuardingOps THEN "guard" ELSE "body")
    /\ UNCHANGED <<options, av, ctx, streams, codecs, lib, op, ret, calls, hist>>

\* (variant: CHECK_FAIL for CHECK_FAIL_UNLOCK)
check_fail_keeps_lock(holder) == holder
\* "pthread_mutex_unlock(&ctx->lock); return val;" of CHECK_FAIL_UNLOCK: the
\* lock afterwards
check_fail_unlock(holder) == "free"

\* CHECK_FAIL_UNLOCK(ctx, val)
CHECK_FAIL_UNLOCK(t) ==
    /\ pc[t].at = "guard"
    /\ IF CHECK_FAIL(ctx)
       THEN /\ lock' = check_fail_unlock(lock)
            /\ Return(t, FailSentinelOf(pc[t].op))
       ELSE /\ Goto(t, "body")
            /\ UNCHANGED <<lock, op, ret>>
    /\ UNCHANGED <<options, av, ctx, streams, codecs, lib, calls, hist>>

\* the statements between taking the lock (and the guard) and giving it up
locked_body(t) ==
    /\ pc[t].at = "body"
    /\ \E fps \in FpsChoices, pts \in PtsChoices, mt \in MediaTypes :
          ctx' = IF pc[t].op = "set_video_fps" THEN [ctx EXCEPT !.vo_fps = fps]
                 ELSE IF pc[t].op = "set_audio_pts"
                 THEN [ctx EXCEPT !.last_audio_in_pts = pts, !.samples_since_last_pts = 0]
                 ELSE IF pc[t].op = "discontinuity" THEN discontinuity_ctx(ctx)
                 ELSE IF pc[t].op = "expect_stream"
                 THEN (IF mt = "video" THEN [ctx EXCEPT !.expect_video = TRUE]
                       ELSE [ctx EXCEPT !.expect_audio = TRUE])
                 ELSE ctx
    /\ Goto(t, IF pc[t].op = "didfail" /\ ctx.failed THEN "unlock1" ELSE "unlock")
    /\ UNCHANGED <<options, av, streams, codecs, lib, op, ret, calls, hist, lock>>

\* pthread_mutex_unlock(&ctx->lock) and the return after it; at "unlock1"
\* encode_lavc_didfail has read failed as true
pthread_mutex_unlock(t) ==
    /\ pc[t].at \in {"unlock", "unlock1"}
    /\ lock' = "free"
    /\ Return(t, IF pc[t].op = "getstatus" THEN <<0>>
                 ELSE IF pc[t].op = "didfail"
                 THEN <<IF pc[t].at = "unlock1" THEN 1 ELSE 0>>
                 ELSE <<>>)
    /\ UNCHANGED <<options, av, ctx, streams, codecs, lib, calls, hist>>

\* lines 312-317 of encode_lavc_start
start_at_gate(t) ==
    /\ pc[t].op = "start" /\ pc[t].at = "gate"
    /\ IF start_gate(ctx) = "go"
       THEN Goto(t, "expect") /\ UNCHANGED <<op, ret, hist>>
       ELSE /\ Return(t, IF start_gate(ctx) = "ret1" THEN <<1>> ELSE <<0>>)
            /\ hist' = [hist EXCEPT !.start_failures =
                                        @ + (IF start_gate(ctx) = "ret1" THEN 0 ELSE 1)]
    /\ UNCHANGED <<options, av, ctx, streams, codecs, lib, calls, lock>>

\* lines 319-334 of encode_lavc_start
start_at_expect(t) ==
    /\ pc[t].op = "start" /\ pc[t].at = "expect"
    /\ IF expected_stream_missing(ctx, options, av)
       THEN /\ ctx' = encode_lavc_fail_ctx(ctx)
            /\ lib' = encode_lavc_fail_lib(ctx, codecs, lib)
            /\ Return(t, <<0>>)
            /\ hist' = [hist EXCEPT !.start_failures = @ + 1]
       ELSE /\ Goto(t, "header")
            /\ UNCHANGED <<ctx, lib, op, ret, hist>>
    /\ UNCHANGED <<options, av, streams, codecs, calls, lock>>

\* lines 336-373 of encode_lavc_start
start_at_header(t) ==
    /\ pc[t].op = "start" /\ pc[t].at = "header"
    /\ \E open_ok \in BOOLEAN, header_ok \in BOOLEAN :
        LET h == start_header(ctx, lib, codecs, av, open_ok, header_ok)
        IN  /\ ctx' = h.ctx
            /\ lib' = h.lib
            /\ Return(t, h.ret)
            /\ hist' = [hist EXCEPT !.start_failures = @ + (IF h.ret = <<0>> THEN 1 ELSE 0)]
    /\ UNCHANGED <<options, av, streams, codecs, calls, lock>>

\* "if (ctx->failed) return;" of encode_lavc_fail
fail_at_check(t) ==
    /\ pc[t].op = "fail" /\ pc[t].at = "check"
    /\ IF fail_is_noop(ctx)
       THEN Return(t, <<>>)
       ELSE Goto(t, "set") /\ UNCHANGED <<op, ret>>
    /\ UNCHANGED <<options, av, ctx, streams, codecs, lib, calls, hist, lock>>

\* "ctx->failed = true;" of encode_lavc_fail
fail_at_set(t) ==
    /\ pc[t].op = "fail" /\ pc[t].at = "set"
    /\ ctx' = [ctx EXCEPT !.failed = TRUE]
    /\ Goto(t, "finish")
    /\ UNCHANGED <<options, av, streams, codecs, lib, op, ret, calls, hist, lock>>

\* "encode_lavc_finish(ctx);" of encode_lavc_fail
fail_at_finish(t) ==
    /\ pc[t].op = "fail" /\ pc[t].at = "finish"
    /\ ctx' = encode_lavc_finish_ctx(ctx)
    /\ lib' = encode_lavc_finish_lib(ctx, codecs, lib)
    /\ \E trailer_ok \in TrailerOutcomes : hist' = trailer_seen(trailer_ok)
    /\ Return(t, <<>>)
    /\ UNCHANGED <<options, av, streams, codecs, calls, lock>>

\* encode_lavc_finish(ctx) called by a thread: it takes no lock
finish_at_body(t) ==
    /\ pc[t].op = "finish" /\ pc[t].at = "finish"
    /\ ctx' = encode_lavc_finish_ctx(ctx)
    /\ lib' = encode_lavc_finish_lib(ctx, codecs, lib)
    /\ \E trailer_ok \in TrailerOutcomes : hist' = trailer_seen(trailer_ok)
    /\ Return(t, <<>>)
    /\ UNCHANGED <<options, av, streams, codecs, calls, lock>>

\* "ctx->avc->pb" of encode_lavc_getstatus (line 1121): the container the
\* statement reads through is there
status_container(c) == c.avc

\* "ctx->avc->pb" of encode_lavc_getstatus read after encode_lavc_finish set
\* ctx->avc to NULL: the read may fault, which ends the process and with it
\* every thread and the lock (locked_body is the read that goes through)
getstatus_fault(t) ==
    /\ pc[t].op = "getstatus" /\ pc[t].at = "body"
    /\ ~status_container(ctx)
    /\ lib' = [lib EXCEPT !.session = "crashed"]
    /\ pc' = [u \in Threads |-> Idle]
    /\ lock' = "free"
    /\ op' = "getstatus" /\ ret' = <<>>
    /\ UNCHANGED <<options, av, ctx, streams, codecs, calls, hist>>

\* one statement of the operation a thread is in, other than taking the lock
thread_step(t) ==
    \/ CHECK_FAIL_UNLOCK(t)
    \/ locked_body(t)
    \/ pthread_mutex_unlock(t)
    \/ start_at_gate(t)
    \/ start_at_expect(t)
    \/ start_at_header(t)
    \/ fail_at_check(t)
    \/ fail_at_set(t)
    \/ fail_at_finish(t)
    \/ finish_at_body(t)

NextThreads ==
    \/ encode_lavc_init
    \/ \E t \in Threads : thread_call(t)
    \/ \E t \in Threads : pthread_mutex_lock(t)
    \/ \E t \in Threads : CHECK_FAIL_UNLOCK(t)
    \/ \E t \in Threads : locked_body(t)
    \/ \E t \in Threads : pthread_mutex_unlock(t)
    \/ \E t \in Threads : start_at_gate(t)
    \/ \E t \in Threads : start_at_expect(t)
    \/ \E t \in Threads : start_at_header(t)
    \/ \E t \in Threads : fail_at_check(t)
    \/ \E t \in Threads : fail_at_set(t)
    \/ \E t \in Threads : fail_at_finish(t)
    \/ \E t \in Threads : finish_at_body(t)
    \/ \E t \in Threads : getstatus_fault(t)

\* the sessions the threads are run on
InitThreads == Init /\ av.found /\ ~av.nofile /\ options.vopts = NoOpts /\ options.aopts = NoOpts

SpecThreads == InitThreads /\ [][NextThreads]_vars

\* every thread goes on with the operation it is in, and a thread waiting for
\* the lock gets it if the lock is free again and again
FairThreads ==
    \A t \in Threads : WF_vars(thread_step(t)) /\ SF_vars(pthread_mutex_lock(t))

FairSpecThreads == SpecThreads /\ FairThreads

----------------------------------------------------------------------------
(* Properties of the header lifecycle and of the fail/finish latch *)

\* what a guarded operation returns on a failed or finished session
FailSentinel(name) ==
    IF name \in {"alloc_stream", "open_codec", "write_frame", "getstatus"} THEN <<-1>>
    ELSE IF name \in {"start", "set_csp", "available"} THEN <<0>>
    ELSE <<>>

\* the operations that CHECK_FAIL is meant to stop
GuardedOps ==
    {"start", "alloc_stream", "open_codec", "write_stats", "write_frame", "getstatus",
     "set_csp", "available", "expect_stream", "discontinuity"}

\* the handles the library has given out and taken back
Handles ==
    <<lib.avc_allocs, lib.avc_frees, lib.io_opened, lib.io_closes,
      lib.codec_allocs, lib.codec_frees, lib.stats_opens, lib.stats_closes>>

\* C1: over any sequence of operations avformat_write_header is called at most
\* once, only by encode_lavc_start, and only on a session whose expect_video /
\* expect_audio validation passed: no expected and wanted stream was missing
\* when the header was written.
C1_HeaderWrittenOnceAfterValidation ==
    /\ [](/\ lib.header_writes <= 1
          /\ Len(lib.header_seen) = lib.header_writes
          /\ \A i \in 1..Len(lib.header_seen) :
                LET h == lib.header_seen[i]
                IN  /\ ~(h.expect_video /\ ~h.vcc /\ codec_wanted(options, av, "video"))
                    /\ ~(h.expect_audio /\ ~h.acc /\ codec_wanted(options, av, "audio")))
    /\ [][lib'.header_writes # lib.header_writes => op' = "start"]_vars

\* C1 witness: the header was written for a session that expected a video
\* stream and had one.
C1_Witness ==
    /\ lib.header_writes = 1
    /\ lib.header_seen[1].expect_video /\ lib.header_seen[1].vcc
    /\ op = "start" /\ ret = <<1>>

\* C2: a frame reaches av_interleaved_write_frame only in a write_frame call
\* made while header_written = 1 (Started); a write_frame call made while the
\* header is NotStarted or StartFailed hands nothing to the container.
C2_FramesOnlyWhileStarted ==
    [][/\ lib'.frames_written # lib.frames_written
          => op' = "write_frame" /\ ctx.header_written = 1
       /\ (op' = "write_frame" /\ ctx.header_written # 1)
          => lib'.frames_written = lib.frames_written /\ ret' = <<-1>>]_vars

\* C2 witness: a frame was handed to the container.
C2_Witness == op = "write_frame" /\ lib.frames_written > 0 /\ ret = <<0>>

\* C3: fail is a latch. After any fail call failed and finished are both set,
\* and the teardown of finish ran in that call if it had not run before; a fail
\* call on a failed session changes nothing; failed implies finished whenever
\* no operation is running.
C3_FailIsLatch ==
    /\ [](ctx.failed => ctx.finished)
    /\ [][op' = "fail" =>
            /\ ctx'.failed /\ ctx'.finished
            /\ ~ctx.finished => lib'.teardowns = lib.teardowns + 1
            /\ ctx.failed => UNCHANGED <<ctx, streams, codecs, lib>>]_vars

\* C3 witness: fail was called on a session that a failed start had already
\* failed.
C3_Witness ==
    op = "fail" /\ ctx.header_written = -1 /\ ctx.failed /\ lib.teardowns = 1

\* C4 (as claimed): once failed is set, every guarded operation returns its
\* failure sentinel.
C4_FailedReturnsSentinel ==
    [][(ctx.failed /\ op' \in GuardedOps) => ret' = FailSentinel(op')]_vars

\* C5: once failed is set no operation changes the byte counters, the frame
\* counter, the container streams or the codec contexts.
C5_FailedFreezesCountersAndSlots ==
    [][ctx.failed =>
          /\ ctx'.vbytes = ctx.vbytes /\ ctx'.abytes = ctx.abytes
          /\ ctx'.frames = ctx.frames
          /\ ctx'.vst = ctx.vst /\ ctx'.ast = ctx.ast
          /\ ctx'.vcc = ctx.vcc /\ ctx'.acc = ctx.acc
          /\ UNCHANGED <<streams, codecs>>]_vars

\* C5 witness: write_frame was called on a failed session whose header had
\* been written.
C5_Witness ==
    /\ op = "write_frame" /\ ret = <<-1>>
    /\ ctx.failed /\ ctx.header_written = 1
    /\ \E s \in 1..Len(streams) : streams[s].out /\ streams[s].codec_type = "video"

\* C6 (as claimed): on a failed or finished session every operation other
\* than fail, finish and free leaves the session and everything it owns
\* unchanged.
C6_TerminalSessionUnchanged ==
    [][((ctx.failed \/ ctx.finished) /\ op' \notin {"fail", "finish", "free"})
          => UNCHANGED <<ctx, streams, codecs, lib>>]_vars

\* C7: every handle the session owns (container writer, I/O handle, codec
\* contexts, statistics channels) is released at most once, and exactly once
\* by the time finished is set; on a finished session no operation releases
\* anything.
C7_HandlesReleasedOnce ==
    /\ [](/\ lib.avc_frees <= lib.avc_allocs /\ lib.avc_allocs <= 1
          /\ lib.io_closes <= lib.io_opened /\ lib.io_opened <= 1
          /\ \A mt \in MediaTypes :
                /\ lib.codec_frees[mt] <= lib.codec_allocs[mt]
                /\ lib.codec_allocs[mt] <= 1
                /\ lib.stats_closes[mt] <= lib.stats_opens[mt]
          /\ ctx.finished =>
                /\ lib.avc_frees = lib.avc_allocs
                /\ lib.io_closes = lib.io_opened
                /\ lib.codec_frees = lib.codec_allocs
                /\ lib.stats_closes = lib.stats_opens)
    /\ [][ctx.finished => UNCHANGED Handles]_vars

\* C7 witness: finish was called on a session that fail had already torn
\* down, with a codec context, a statistics channel and the I/O handle each
\* released once.
C7_Witness ==
    /\ op = "finish" /\ ctx.failed
    /\ lib.io_closes = 1
    /\ lib.codec_frees["video"] = 1
    /\ lib.stats_closes["video"] = 1

\* C8: free on a session that is not finished sets failed and finished and
\* runs the teardown, once; free on a finished session runs no teardown,
\* releases no handle and leaves failed as it was. Either way the teardown has
\* run exactly once when the session is released.
C8_FreeForcesTeardown ==
    [][(lib.session = "live" /\ lib'.session = "freed") =>
          /\ op' = "free"
          /\ lib'.teardowns = 1
          /\ IF ctx.finished
             THEN ctx' = ctx /\ lib'.teardowns = lib.teardowns /\ UNCHANGED Handles
             ELSE ctx'.failed /\ ctx'.finished /\ lib.teardowns = 0]_vars

\* C8 witness: free was the first call on a new session.
C8_Witness ==
    /\ op = "free" /\ calls = 2 /\ lib.session = "freed"
    /\ ctx.failed /\ ctx.finished /\ lib.avc_frees = 1

\* C9: from one operation boundary to the next header_written changes only
\* from 0 (NotStarted) to -1 (StartFailed) or to 1 (Started).
C9_HeaderStateMonotonic ==
    [][ctx'.header_written # ctx.header_written =>
          ctx.header_written = 0 /\ ctx'.header_written \in {-1, 1}]_vars

\* C9 witness: finish ran on a started session and the header is still
\* Started.
C9_Witness == ctx.header_written = 1 /\ ctx.finished /\ lib.trailer_writes = 1

\* C10: a start call on a started session that is neither failed nor finished
\* returns 1 and changes nothing: no file open, no metadata copy, no header
\* write.
C10_StartIdempotentOnSuccess ==
    [][(op' = "start" /\ ctx.header_written = 1 /\ ~ctx.failed /\ ~ctx.finished) =>
          /\ ret' = <<1>>
          /\ UNCHANGED <<ctx, streams, codecs, lib>>]_vars

\* C10 witness: start returned 1 on a session that had already handed a frame
\* to the container.
C10_Witness ==
    /\ op = "start" /\ ret = <<1>>
    /\ lib.frames_written > 0 /\ lib.header_writes = 1
    /\ ~ctx.failed /\ ~ctx.finished

----------------------------------------------------------------------------
(* Properties of start *)

\* C11: once a start call has returned 0, for whatever reason, every later
\* start call returns 0 and makes neither an avio_open nor an
\* avformat_write_header call.
C11_StartFailureIsTerminal ==
    [][(hist.start_failures > 0 /\ op' = "start") =>
          /\ ret' = <<0>>
          /\ lib'.file_opens = lib.file_opens
          /\ lib'.header_writes = lib.header_writes]_vars

\* C11 witness: start returned 0 a second time, the first time because the
\* output could not be opened.
C11_Witness ==
    /\ op = "start" /\ ret = <<0>> /\ hist.start_failures = 2
    /\ lib.file_opens = 1 /\ lib.io_opened = 0 /\ lib.header_writes = 0

\* C12: when avio_open or avformat_write_header fails inside start, start
\* returns with header_written = -1, failed and finished set and no trailer
\* written; a failed avio_open is followed by no avformat_write_header call,
\* and after a failed avformat_write_header the I/O handle that was opened has
\* been closed, once.
C12_StartIoFailure ==
    [][(/\ op' = "start" /\ ret' = <<0>>
        /\ \/ lib'.file_opens # lib.file_opens
           \/ lib'.header_writes # lib.header_writes) =>
          /\ ctx'.header_written = -1
          /\ ctx'.failed /\ ctx'.finished
          /\ lib'.trailer_writes = 0
          /\ (lib'.file_opens # lib.file_opens /\ lib'.io_opened = lib.io_opened)
                => lib'.header_writes = lib.header_writes
          /\ lib'.header_writes # lib.header_writes
                => /\ lib'.io_closes - lib.io_closes = lib'.io_opened - lib.io_opened
                   /\ lib'.io_closes = lib'.io_opened
                   /\ ~ctx'.pb]_vars

\* C12 witness: avformat_write_header failed on an output that had been
\* opened, and the handle was closed.
C12_Witness ==
    /\ op = "start" /\ ret = <<0>>
    /\ lib.header_writes = 1 /\ lib.io_opened = 1 /\ lib.io_closes = 1
    /\ ctx.header_written = -1

\* C13: a start call on a session that is not started, not failed and not
\* finished fails the session before any I/O (returns 0, failed set, no
\* avio_open, no avformat_write_header) exactly when expect_video is set, there
\* is no video codec context and the format has a default video codec or
\* --ovc was given, or the same holds for audio; otherwise it goes on to the
\* header.
C13_ExpectationCheck ==
    [][(op' = "start" /\ ctx.header_written = 0 /\ ~ctx.failed /\ ~ctx.finished) =>
          LET missing ==
                \/ /\ ctx.expect_video /\ ~ctx.vcc
                   /\ (av.video_codec # "NONE" \/ options.vcodec # NULLSTR)
                \/ /\ ctx.expect_audio /\ ~ctx.acc
                   /\ (av.audio_codec # "NONE" \/ options.acodec # NULLSTR)
          IN  IF missing
              THEN /\ ret' = <<0>> /\ ctx'.failed
                   /\ ctx'.header_written = 0
                   /\ lib'.file_opens = lib.file_opens
                   /\ lib'.header_writes = lib.header_writes
              ELSE /\ ctx'.header_written # 0
                   /\ lib'.header_writes # lib.header_writes
                         \/ lib'.file_opens # lib.file_opens]_vars

\* C13 witness: start went on to the header although an expected video
\* stream was missing, because the format has no default video codec and
\* none was asked for.
C13_Witness ==
    /\ op = "start" /\ ret = <<1>>
    /\ ctx.expect_video /\ ~ctx.vcc /\ ctx.header_written = 1
    /\ av.video_codec = "NONE" /\ options.vcodec = NULLSTR

----------------------------------------------------------------------------
(* Properties of stream allocation *)

\* C14: ctx->timebase is set by the time the first alloc_stream call returns
\* a stream, no operation changes it once it is set, and every alloc_stream
\* call that returns a stream gives exactly ctx->timebase to the container
\* stream and the codec context it returns, whatever frame rate the video
\* output has reported since.
C14_TimebaseFixedOnce ==
    /\ [](/\ \A mt \in MediaTypes :
                codecs[mt].out =>
                    ctx.timebase.den # 0 /\ codecs[mt].time_base = ctx.timebase
          /\ \A s \in 1..Len(streams) :
                streams[s].out => streams[s].time_base = ctx.timebase)
    /\ [][/\ ctx.timebase.den # 0 => ctx'.timebase = ctx.timebase
          /\ (op' = "alloc_stream" /\ ret' = <<0>>) =>
                /\ Allocated # "none"
                /\ codecs'[Allocated].time_base = ctx'.timebase
                /\ LET st == IF Allocated = "video" THEN ctx'.vst ELSE ctx'.ast
                   IN  streams'[st].out /\ streams'[st].time_base = ctx'.timebase]_vars

\* C14 witness: the second stream was allocated after the video output had
\* reported another frame rate than the one the timebase was derived from.
C14_Witness ==
    /\ op = "alloc_stream" /\ ret = <<0>>
    /\ codecs["video"].out /\ codecs["audio"].out
    /\ ctx.timebase = [num |-> 1, den |-> 25] /\ ctx.vo_fps = 30
    /\ codecs["audio"].time_base = codecs["video"].time_base

\* C15: with --ovfirst and not --oafirst, once alloc_stream has returned a
\* stream for both media types the video stream has the lower index in the
\* container, whichever of the two was asked for first; with --oafirst and
\* not --ovfirst the audio stream has the lower index.
C15_StreamOrder ==
    (ctx.vcc /\ ctx.acc) =>
        /\ (options.video_first /\ ~options.audio_first) => ctx.vst < ctx.ast
        /\ (options.audio_first /\ ~options.video_first) => ctx.ast < ctx.vst

\* C15 witness: --ovfirst, the audio stream was asked for first and the
\* video stream still comes first.
C15_Witness ==
    /\ options.video_first /\ ~options.audio_first
    /\ hist.alloc_order = <<"audio", "video">>
    /\ ctx.vcc /\ ctx.acc /\ ctx.vst = 1 /\ ctx.ast = 2

\* C16: the session never holds more than one codec context per media type
\* nor more than one container stream per media type, so the container has at
\* most two streams; an alloc_stream call for a media type that has a codec
\* context returns -1 and creates neither a stream nor a codec context.
C16_OneSlotPerMediaType ==
    /\ [](/\ Len(streams) <= 2
          /\ \A mt \in MediaTypes :
                /\ lib.codec_allocs[mt] - lib.codec_frees[mt] <= 1
                /\ Cardinality({s \in 1..Len(streams) : streams[s].codec_type = mt}) <= 1
          /\ ctx.vst # 0 => ctx.vst # ctx.ast)
    /\ [][(/\ op' = "alloc_stream"
           /\ \/ hist'.alloc_mt = "video" /\ ctx.vcc
              \/ hist'.alloc_mt = "audio" /\ ctx.acc) =>
             /\ ret' = <<-1>>
             /\ UNCHANGED <<ctx, streams, codecs, lib>>]_vars

\* C16 witness: alloc_stream was asked for a video stream a second time.
C16_Witness ==
    /\ op = "alloc_stream" /\ ret = <<-1>> /\ hist.alloc_mt = "video"
    /\ ctx.vcc /\ ~ctx.failed /\ lib.codec_allocs["video"] = 1

\* C17: an alloc_stream call for a media type for which encode_lavc_init
\* resolved no encoder returns -1; on a session that is not failed, not
\* finished and not started it fails the session (failed and finished set, the
\* teardown run) exactly when the format has a default codec for that type or
\* the user named one, and otherwise leaves the session neither failed nor
\* finished.
C17_MissingEncoder ==
    [][(/\ op' = "alloc_stream"
        /\ \/ hist'.alloc_mt = "video" /\ ctx.vc = "NULL"
           \/ hist'.alloc_mt = "audio" /\ ctx.ac = "NULL") =>
          /\ ret' = <<-1>>
          /\ UNCHANGED codecs
          /\ (~ctx.failed /\ ~ctx.finished /\ ctx.header_written = 0) =>
                LET wanted ==
                      IF hist'.alloc_mt = "video"
                      THEN av.video_codec # "NONE" \/ options.vcodec # NULLSTR
                      ELSE av.audio_codec # "NONE" \/ options.acodec # NULLSTR
                IN  IF wanted
                    THEN /\ ctx'.failed /\ ctx'.finished
                         /\ lib'.teardowns = lib.teardowns + 1
                    ELSE /\ ~ctx'.failed /\ ~ctx'.finished
                         /\ lib'.teardowns = lib.teardowns]_vars

\* C17 witness: alloc_stream was asked for a video stream on an output whose
\* format has no video codec, and the session goes on.
C17_Witness ==
    /\ op = "alloc_stream" /\ ret = <<-1>> /\ hist.alloc_mt = "video"
    /\ ctx.vc = "NULL" /\ av.video_codec = "NONE" /\ options.vcodec = NULLSTR
    /\ ~ctx.failed /\ ~ctx.finished /\ ctx.timebase.den # 0

----------------------------------------------------------------------------
(* Properties of frame accounting *)

\* C18 (as claimed): vbytes is the total size of the packets write_frame
\* handed to av_interleaved_write_frame on the video slot's stream, frames is
\* their number, and abytes is the total size of those handed over on the
\* audio slot's stream.
C18_CountersMatchFramesHanded ==
    /\ ctx.vbytes = hist.sent_opened["video"].bytes + hist.sent_unopened["video"].bytes
    /\ ctx.frames = hist.sent_opened["video"].frames + hist.sent_unopened["video"].frames
    /\ ctx.abytes = hist.sent_opened["audio"].bytes + hist.sent_unopened["audio"].bytes

\* C18 (amended): vbytes is the total size of the packets write_frame handed
\* to av_interleaved_write_frame on the video slot's stream after open_codec
\* had opened the slot's codec, frames is their number, abytes is the same
\* total for the audio slot, whatever av_interleaved_write_frame returned;
\* packets on a stream whose codec open_codec has not opened are handed over
\* and counted nowhere.
C18_CountersMatchOpenedFrames ==
    /\ ctx.vbytes = hist.sent_opened["video"].bytes
    /\ ctx.frames = hist.sent_opened["video"].frames
    /\ ctx.abytes = hist.sent_opened["audio"].bytes
    /\ lib.frames_written =
          hist.sent_opened["video"].frames + hist.sent_opened["audio"].frames
          + hist.sent_unopened["video"].frames + hist.sent_unopened["audio"].frames

\* C18 witness: two video packets of sizes 1 and 2 were counted, and
\* av_interleaved_write_frame rejected the last one.
C18_Witness ==
    /\ op = "write_frame" /\ ret = <<MUX_ERROR>>
    /\ ctx.vbytes = 3 /\ ctx.frames = 2 /\ lib.frames_written = 2

\* C19: a write_frame call that hands its packet to
\* av_interleaved_write_frame returns what that call returned, and changes
\* neither failed, finished nor header_written whatever it returned: after a
\* negative return the session takes further write_frame calls.
C19_WriteErrorNotFatal ==
    /\ [](Len(hist.mux_rets) = lib.frames_written)
    /\ [][lib'.frames_written # lib.frames_written =>
            /\ op' = "write_frame"
            /\ ret' = <<hist'.mux_rets[Len(hist'.mux_rets)]>>
            /\ ctx'.failed = ctx.failed /\ ctx'.finished = ctx.finished
            /\ ctx'.header_written = ctx.header_written
            /\ UNCHANGED <<streams, codecs>>]_vars

\* C19 witness: av_interleaved_write_frame rejected a packet and took the
\* next one.
C19_Witness ==
    /\ op = "write_frame" /\ ret = <<0>>
    /\ hist.mux_rets = <<MUX_ERROR, 0>>
    /\ ~ctx.failed /\ ~ctx.finished

----------------------------------------------------------------------------
(* Properties of the two-pass logs *)

\* C20 (as claimed): what the pass-2 session reads from a log into the
\* codec's stats_in is the concatenation, in order, of the texts the
\* write_stats calls of the pass-1 session appended to that log.
C20_TwoPassRoundTrip ==
    \A mt \in MediaTypes :
        (hist.pass = 2 /\ codecs[mt].out /\ hist.stats_in_read[mt]) =>
            codecs[mt].stats_in = hist.pass1_stats[mt]

----------------------------------------------------------------------------
(* Properties of the teardown *)

\* C21: av_write_trailer is called at most once over a session's lifetime,
\* and the step in which the teardown of finish runs (finished goes from unset
\* to set) calls it exactly when header_written is 1 at that moment; whatever
\* av_write_trailer returns, that step sets failed only if it is a fail or
\* free, releases every handle and sets finished.
C21_TrailerOnceWhenStarted ==
    /\ [](lib.trailer_writes <= 1 /\ Len(hist.trailer_rets) = lib.trailer_writes)
    /\ [][/\ lib'.trailer_writes # lib.trailer_writes => ~ctx.finished /\ ctx'.finished
          /\ (lib.session = "live" /\ ~ctx.finished /\ ctx'.finished) =>
                /\ lib'.trailer_writes # lib.trailer_writes <=> ctx.header_written = 1
                /\ op' = "finish" => ctx'.failed = ctx.failed
                /\ lib'.avc_frees = lib'.avc_allocs
                /\ lib'.io_closes = lib'.io_opened
                /\ lib'.codec_frees = lib'.codec_allocs
                /\ lib'.stats_closes = lib'.stats_opens
                /\ ~ctx'.avc /\ ~ctx'.pb /\ ~ctx'.vcc /\ ~ctx'.acc]_vars

\* C21 witness: finish ran on a started session, av_write_trailer failed, and
\* the session is finished, not failed, with the output closed.
C21_Witness ==
    /\ op = "finish" /\ hist.trailer_rets = <<-1>>
    /\ ctx.finished /\ ~ctx.failed /\ ctx.header_written = 1
    /\ lib.io_closes = 1 /\ lib.avc_frees = 1

----------------------------------------------------------------------------
(* Properties of construction *)

\* an encoder can be resolved for the media type: one of the names given
\* with --ovc / --oac names an encoder of that type or, when none is given,
\* there is an encoder for the format's default codec
Resolvable(names, default, mt) ==
    IF names # NULLSTR
    THEN \E i \in 1..Len(names) : \E e \in Encoders : e.name = names[i] /\ e.type = mt
    ELSE \E e \in Encoders : e.id = default

\* C22: encode_lavc_init returns a session exactly when av_guess_format found
\* a format and an encoder was resolved for video or for audio; when it
\* returns NULL the session it built is failed and finished, the container
\* writer has been released once and no output file was opened.
C22_InitReturnsSession ==
    [][op' = "init" =>
          /\ ret' = <<1>> <=>
                /\ av.found
                /\ \/ Resolvable(options.vcodec, av.video_codec, "video")
                   \/ Resolvable(options.acodec, av.audio_codec, "audio")
          /\ ret' = <<1>> => lib'.session = "live" /\ ~ctx'.failed /\ ~ctx'.finished /\ ctx'.avc
          /\ ret' # <<1>> =>
                /\ ret' = <<0>> /\ lib'.session = "rejected"
                /\ ctx'.failed /\ ctx'.finished /\ ~ctx'.avc
                /\ lib'.avc_allocs = 1 /\ lib'.avc_frees = 1 /\ lib'.teardowns = 1
                /\ lib'.file_opens = 0 /\ lib'.io_opened = 0]_vars

\* C22 witness: a session for an output with an audio encoder and no video
\* encoder, the one named with --ovc being unknown.
C22_Witness ==
    /\ op = "init" /\ ret = <<1>>
    /\ ctx.vc = "NULL" /\ ctx.ac # "NULL" /\ options.vcodec # NULLSTR

----------------------------------------------------------------------------
(* Properties of the lock *)

\* the statements a thread executes holding ctx->lock
Locked == {"guard", "body", "unlock", "unlock1"}

\* C24: an operation that takes ctx->lock gives it up before it returns, on
\* the CHECK_FAIL_UNLOCK path too: a thread holds the lock exactly between
\* its pthread_mutex_lock and its return, so the lock is free when no
\* operation is in progress; and with fair scheduling a thread waiting for the
\* lock gets it and returns from its operation.
C24_LockReleasedOnEveryPath ==
    /\ [](/\ lock \in Threads \cup {"free"}
          /\ \A t \in Threads : lock = t <=> pc[t].at \in Locked
          /\ (\A t \in Threads : pc[t] = Idle) => lock = "free")
    /\ [][\A t \in Threads : (pc[t] # Idle /\ pc'[t] = Idle) => lock' # t]_vars
    /\ \A t \in Threads : (pc[t].at = "lock") ~> (pc[t] = Idle)

\* C24 witness: getstatus has returned through CHECK_FAIL_UNLOCK on a failed
\* session, the lock is free and the other thread is waiting for it.
C24_Witness ==
    /\ op = "getstatus" /\ ret = <<-1>> /\ ctx.failed
    /\ lock = "free"
    /\ \E t \in Threads : pc[t].at = "lock" /\ pc[t].op \in GuardingOps

\* the fields ctx->lock is there for that the statement a thread is at reads
\* or writes: vo_fps, the expect flags, the discontinuity offsets, failed
Touches(p) ==
    IF p.at = "guard" THEN {"failed"}
    ELSE IF p.at = "body" THEN
        (IF p.op = "set_video_fps" THEN {"vo_fps"}
         ELSE IF p.op = "discontinuity" THEN {"offsets"}
         ELSE IF p.op = "expect_stream" THEN {"expect"}
         ELSE IF p.op = "didfail" THEN {"failed"}
         ELSE {})
    ELSE IF p.at = "gate" THEN (IF ctx.header_written = 0 THEN {"failed"} ELSE {})
    ELSE IF p.at = "expect" THEN {"expect"}
    ELSE IF p.at \in {"check", "set"} THEN {"failed"}
    ELSE {}

\* C23 (as claimed): a thread that is at a statement reading or writing
\* vo_fps, an expect flag, a discontinuity offset or failed holds ctx->lock,
\* whatever the other thread is doing.
C23_ProtectedFieldsUnderLock ==
    \A t \in Threads : Touches(pc[t]) # {} => lock = t

----------------------------------------------------------------------------
(* Properties of the guards of alloc_stream, write_frame and open_codec *)

\* C25: once header_written is not 0 (encode_lavc_start got past its checks,
\* whether or not the header could be written), every alloc_stream call
\* returns -1 and creates neither a container stream nor a codec context, and
\* no operation adds a stream to the container.
C25_NoStreamAfterStart ==
    [][ctx.header_written # 0 =>
          /\ Len(streams') = Len(streams)
          /\ lib'.codec_allocs = lib.codec_allocs
          /\ op' = "alloc_stream" =>
                /\ ret' = <<-1>>
                /\ UNCHANGED <<ctx, streams, codecs, lib>>]_vars

\* C25 witness: alloc_stream was asked for an audio stream on a started
\* session that has a video stream only, and is neither failed nor finished.
C25_Witness ==
    /\ op = "alloc_stream" /\ ret = <<-1>> /\ hist.alloc_mt = "audio"
    /\ ctx.header_written = 1 /\ ~ctx.failed /\ ~ctx.finished
    /\ ctx.vcc /\ ~ctx.acc /\ ctx.ac # "NULL" /\ Len(streams) = 1

\* C26 (as claimed): an alloc_stream call that returns -1 because
\* encode_lavc_init resolved no encoder for the media type, on a session where
\* that is not fatal, leaves the session as it was: no container stream has
\* been created and ctx->timebase is still unset if it was unset.
C26_MissingEncoderLeavesSession ==
    [][(/\ op' = "alloc_stream" /\ ret' = <<-1>>
        /\ ~ctx.failed /\ ~ctx.finished /\ ctx.header_written = 0
        /\ ~ctx'.failed
        /\ \/ hist'.alloc_mt = "video" /\ ctx.vc = "NULL"
           \/ hist'.alloc_mt = "audio" /\ ctx.ac = "NULL") =>
          /\ Len(streams') = Len(streams)
          /\ ctx.timebase.den = 0 => ctx'.timebase.den = 0
          /\ UNCHANGED <<ctx, streams, codecs, lib>>]_vars

\* C27: a write_frame call whose packet carries another stream index than
\* the stream's, or that is made while header_written is not 1, returns -1,
\* changes no byte, frame or audio-seconds counter, hands nothing to
\* av_interleaved_write_frame and does not set failed.
C27_RejectedFrameHasNoEffect ==
    [][(op' = "write_frame" /\ (~hist'.index_matched \/ ctx.header_written # 1)) =>
          /\ ret' = <<-1>>
          /\ ctx'.vbytes = ctx.vbytes /\ ctx'.abytes = ctx.abytes
          /\ ctx'.frames = ctx.frames /\ ctx'.audioseconds = ctx.audioseconds
          /\ lib'.frames_written = lib.frames_written
          /\ hist'.mux_rets = hist.mux_rets
          /\ ctx'.failed = ctx.failed /\ ctx'.finished = ctx.finished]_vars

\* C27 witness: on a started session that has counted a video packet, a
\* packet with the wrong stream index was rejected.
C27_Witness ==
    /\ op = "write_frame" /\ ret = <<-1>> /\ ~hist.index_matched
    /\ ctx.header_written = 1 /\ ~ctx.failed /\ ~ctx.finished
    /\ lib.frames_written = 1 /\ ctx.frames = 1 /\ ctx.vbytes > 0

----------------------------------------------------------------------------
(* Properties of the two-pass preparation *)

\* the flags value of the option dictionary alloc_stream builds for a slot
SlotFlags(mt) ==
    av_dict_get(slot_options(IF mt = "video" THEN options.vopts ELSE options.aopts, av),
                "flags")

\* the flags value of the slot's dictionary as the session holds it
HeldFlags(c, mt) == av_dict_get(IF mt = "video" THEN c.voptions ELSE c.aoptions, "flags")

\* the slot's statistics channel is open
StatsOpen(c, mt) == IF mt = "video" THEN c.twopass_bytebuffer_v ELSE c.twopass_bytebuffer_a

\* C28 (as claimed): an alloc_stream call that returns a stream decides the
\* two-pass setup of the slot from the flags of the slot's own options: the
\* pass-1 channel is open afterwards only if they ask for pass1, and if they
\* do it is open or pass1 has been taken out of the slot's flags; the pass-2
\* log is read only if they ask for pass2. This holds for the audio slot
\* whatever the video options are and whether or not the video codec has been
\* allocated or opened, and for the video slot likewise.
C28_TwoPassFromOwnOptions ==
    [][(op' = "alloc_stream" /\ ret' = <<0>>) =>
          LET mt == Allocated
          IN  /\ StatsOpen(ctx', mt) => value_has_flag(SlotFlags(mt), "pass1")
              /\ (value_has_flag(SlotFlags(mt), "pass1") /\ ~StatsOpen(ctx', mt))
                    => ~value_has_flag(HeldFlags(ctx', mt), "pass1")
              /\ lib'.stats_closes[mt] # lib.stats_closes[mt]
                    => value_has_flag(SlotFlags(mt), "pass2")]_vars

C30_OpenCodecOutcome ==
    [][(op' = "open_codec" /\ ~ctx.failed /\ ~ctx.finished) =>
          /\ \/ /\ ret' = <<0>>
                /\ ~ctx'.failed /\ ~ctx'.finished
                /\ \E mt \in MediaTypes : hist'.opened[mt] = "ok"
             \/ /\ ret'[1] < 0
                /\ ctx'.failed /\ ctx'.finished
                /\ lib'.teardowns = lib.teardowns + 1
          /\ \A mt \in MediaTypes :
                hist'.opened[mt] # hist.opened[mt] =>
                    IF hist'.opened[mt] = "ok"
                    THEN /\ ret' = <<0>>
                         /\ ~ctx'.failed
                         /\ (IF mt = "video" THEN ctx'.voptions
                                             ELSE ctx'.aoptions) = EmptyDict
                    ELSE /\ ret'[1] < 0
                         /\ ctx'.failed /\ ctx'.finished]_vars

\* C30 witness: avcodec_open2 succeeded on the video slot, whose options were
\* not empty, the copy of the codec parameters to the stream failed, and
\* open_codec returned -1 with the session failed and finished and the
\* options freed.
C30_Witness ==
    /\ op = "open_codec" /\ ret = <<-1>>
    /\ hist.opened["video"] = "parameters failed"
    /\ options.vopts # NoOpts /\ ctx.voptions = EmptyDict
    /\ ctx.failed /\ ctx.finished
    /\ \E s \in 1..Len(streams) : streams[s].codec_type = "video"

----------------------------------------------------------------------------
(* The status reporter against a concurrent teardown *)

\* C31 (as claimed): a thread in encode_lavc_getstatus that got past
\* CHECK_FAIL_UNLOCK and has not yet given up ctx->lock finds the container
\* there: no encode_lavc_fail or encode_lavc_finish of the other thread
\* releases ctx->avc while getstatus is between its guard and its unlock.
C31_StatusContainerValid ==
    \A t \in Threads :
        (pc[t].op = "getstatus" /\ pc[t].at \in {"body", "unlock"})
            => (lock = t /\ status_container(ctx))

----------------------------------------------------------------------------
(* The streams of the container when its header is written *)

\* the container stream with index s - 1 is the stream of a slot that has a
\* codec context (alloc_stream returned it together with the context)
StreamHasCodec(c, s) == (c.vst = s /\ c.vcc) \/ (c.ast = s /\ c.acc)

\* C32 (as claimed): when encode_lavc_start calls avformat_write_header,
\* every stream of the container is the stream of a slot that has a codec
\* context: no stream made ahead for --ovfirst/--oafirst, and no stream made
\* by an alloc_stream call that returned -1, is in the container.
C32_NoPlaceholderAtHeader ==
    [][lib'.header_writes # lib.header_writes =>
          \A s \in 1..Len(streams) : StreamHasCodec(ctx, s)]_vars

====
